---- MODULE Spec2Model ----
(***************************************************************************)
(* State-machine model of TFSaver                                          *)
(* (ml-agents/mlagents/trainers/saver/tf_saver.py).                        *)
(*                                                                         *)
(* The Saver object's fields are the variables model_path,                 *)
(* initialize_path, _keep_checkpoints, load, policy, graph, sess, saver.   *)
(* The framework saver created by register() is an object of its own: its  *)
(* max_to_keep and its list of tracked checkpoints are the variables       *)
(* saver_max_to_keep and saver_last_checkpoints.  The policies live        *)
(* outside the Saver (variable policies), storage is ckpt_files,           *)
(* ckpt_state, raw_graph and exported.                                     *)
(*                                                                         *)
(* History variables: `last` records what the most recent call did (its    *)
(* arguments, the calls it made in order, and how it ended); `calls`       *)
(* counts the calls; `written` lists the checkpoint files written through  *)
(* the current framework saver, oldest first; `saved` holds, for every     *)
(* checkpoint file save_checkpoint wrote, the parameter values the policy  *)
(* had at that moment.                                                     *)
(***************************************************************************)
EXTENDS Integers, Sequences, FiniteSets, TLC

\* ---- bounds ------------------------------------------------------------
MaxKeep  == 2      \* keep_checkpoints ranges over 0..MaxKeep
MaxStep  == 2      \* training steps are capped
MaxVal   == 1      \* parameter values range over 0..MaxVal
MaxCalls == 4      \* number of calls in one run

\* ---- values ------------------------------------------------------------
None      == "None"
NoVersion == << >>          \* version_tensors is None
Dirs      == {"d1", "d2"}
Settings  == {"nn", "onnx"}
PolicyIds == {"p1", "p2"}
IOOutcomes == {"ok", "ckpt_fails", "graph_fails"}
\* the path prefixes save_checkpoint and export are called with:
\* <<directory, file name>>
Paths     == {<<"d1", "a">>, <<"d1", "b">>, <<"d2", "a">>}
\* the initialization paths of a run (None: not configured)
InitPaths == {None, "d2"}
ModelPaths == {"d1"}        \* the run's model directory (d1 and d2 are symmetric)

\* the installed package version, as LooseVersion parses it ("1.0.0.dev5")
__version__ == <<1, 0, 0, 5>>
\* the version marker of a checkpoint written by an earlier release
OldVersionTuple == <<0, 9, 0>>

VARIABLES model_path, initialize_path, _keep_checkpoints, load,
          policy, graph, sess, saver,
          saver_max_to_keep, saver_last_checkpoints,
          policies, ckpt_files, ckpt_state, raw_graph, exported,
          last, calls, written, saved

config   == <<model_path, initialize_path, _keep_checkpoints, load>>
binding  == <<policy, graph, sess, saver, saver_max_to_keep, saver_last_checkpoints>>
storage  == <<ckpt_files, ckpt_state, raw_graph, exported>>
vars     == <<model_path, initialize_path, _keep_checkpoints, load,
              policy, graph, sess, saver,
              saver_max_to_keep, saver_last_checkpoints,
              policies, ckpt_files, ckpt_state, raw_graph, exported,
              last, calls, written, saved>>

\* ---- helpers -----------------------------------------------------------
\* TFPolicy._convert_version_string: first three components of the version
_convert_version_string(version) == SubSeq(version, 1, 3)

\* f"{checkpoint_path}.ckpt"
CkptFile(path) == <<path[1], path[2] \o ".ckpt">>

\* the empty mapping (no file present)
NoFiles == [x \in {} |-> None]

\* a mapping without key k
Remove(f, k) == [x \in (DOMAIN f) \ {k} |-> f[x]]

\* a sequence without the elements equal to x
RECURSIVE Without(_, _)
Without(s, x) ==
    IF s = << >> THEN << >>
    ELSE IF Head(s) = x THEN Without(Tail(s), x)
         ELSE <<Head(s)>> \o Without(Tail(s), x)

Range(s) == {s[i] : i \in DOMAIN s}

\* the values of a policy's variables that a checkpoint holds
Snapshot(p) ==
    [params |-> p.params, step |-> p.step, version |-> p.version_tensors]

\* the two policies of a run, as TFPolicy builds them (graph built, session
\* open, variables at their initial values): p1 has no version marker and
\* one parameter, p2 has a version marker and two parameters
NewPolicy(id) ==
    IF id = "p1"
    THEN [graph |-> "g1", sess |-> "s1", params |-> [n \in {"w"} |-> 0],
          step |-> 0, version_tensors |-> NoVersion]
    ELSE [graph |-> "g2", sess |-> "s2", params |-> [n \in {"w", "b"} |-> 0],
          step |-> 0, version_tensors |-> _convert_version_string(__version__)]

\* a checkpoint left in storage by an earlier run of an earlier release
OldCheckpoint ==
    [params |-> [n \in {"w", "b"} |-> 1], step |-> 1, version |-> OldVersionTuple]

\* what a call leaves in `last`
Result(op, args, exc, msg, events) ==
    [op |-> op, args |-> args, exc |-> exc, msg |-> msg, events |-> events]

\* the messages of the exceptions
MsgNotLoaded    == "The model {} could not be loaded."
MsgFoundNotLoad == "The model {} was found but could not be loaded."
MsgNameError    == "name 'UnityPolicyException' is not defined"
MsgNoneType     == "'NoneType' object has no attribute"
MsgNotValid     == "The passed save_path is not a valid checkpoint"
MsgIO           == "write failed"

\* ---- TFSaver.__init__ --------------------------------------------------
Init ==
    /\ model_path \in ModelPaths
    /\ initialize_path \in InitPaths
    /\ _keep_checkpoints \in 0..MaxKeep
    /\ load \in BOOLEAN
    /\ policy = None
    /\ graph = None
    /\ sess = None
    /\ saver = None
    /\ saver_max_to_keep = 0
    /\ saver_last_checkpoints = << >>
    /\ policies = [id \in PolicyIds |-> NewPolicy(id)]
    /\ \E old \in {None} \cup Dirs :
         IF old = None
         THEN ckpt_files = NoFiles /\ ckpt_state = NoFiles
         ELSE /\ ckpt_files = (<<old, "a.ckpt">> :> OldCheckpoint)
              /\ ckpt_state = (old :> <<old, "a.ckpt">>)
    /\ raw_graph = NoFiles
    /\ exported = {}
    /\ last = Result("__init__", << >>, "none", "", << >>)
    /\ calls = 0
    /\ written = << >>
    /\ saved = NoFiles

\* ---- TFSaver.unregistered ----------------------------------------------
unregistered == policy = None

\* ---- TFSaver.register --------------------------------------------------
\* register without the `is not None` test: the assignment of self.policy
\* happens, then self.policy.graph fails on None
register_unguarded(module) ==
    /\ calls < MaxCalls
    /\ IF module # None
       THEN /\ policy' = module
            /\ graph' = policies[module].graph
            /\ sess' = policies[module].sess
            /\ saver' = "Saver"
            /\ saver_max_to_keep' = _keep_checkpoints
            /\ saver_last_checkpoints' = << >>
            /\ written' = << >>
            /\ last' = Result("register", <<module>>, "none", "", <<<<"register", module>>>>)
       ELSE /\ policy' = None
            /\ UNCHANGED <<graph, sess, saver, saver_max_to_keep,
                           saver_last_checkpoints, written>>
            /\ last' = Result("register", <<module>>, "AttributeError", MsgNoneType,
                              <<<<"register", module>>>>)
    /\ calls' = calls + 1
    /\ UNCHANGED <<config, policies, storage, saved>>

\* register that binds the policy but creates no framework saver
register_no_saver(module) ==
    /\ calls < MaxCalls
    /\ IF module # None
       THEN /\ policy' = module
            /\ graph' = policies[module].graph
            /\ sess' = policies[module].sess
            /\ UNCHANGED <<saver, saver_max_to_keep, saver_last_checkpoints, written>>
       ELSE UNCHANGED <<binding, written>>
    /\ last' = Result("register", <<module>>, "none", "", <<<<"register", module>>>>)
    /\ calls' = calls + 1
    /\ UNCHANGED <<config, policies, storage, saved>>

\* register that leaves max_to_keep at the framework default
register_default_keep(module) ==
    /\ calls < MaxCalls
    /\ IF module # None
       THEN /\ policy' = module
            /\ graph' = policies[module].graph
            /\ sess' = policies[module].sess
            /\ saver' = "Saver"
            /\ saver_max_to_keep' = 5
            /\ saver_last_checkpoints' = << >>
            /\ written' = << >>
       ELSE UNCHANGED <<binding, written>>
    /\ last' = Result("register", <<module>>, "none", "", <<<<"register", module>>>>)
    /\ calls' = calls + 1
    /\ UNCHANGED <<config, policies, storage, saved>>

register(module) ==
    /\ calls < MaxCalls
    /\ IF module # None
       THEN /\ policy' = module
            /\ graph' = policies[module].graph
            /\ sess' = policies[module].sess
            /\ saver' = "Saver"
            /\ saver_max_to_keep' = _keep_checkpoints
            /\ saver_last_checkpoints' = << >>
            /\ written' = << >>
       ELSE UNCHANGED <<binding, written>>
    /\ last' = Result("register", <<module>>, "none", "", <<<<"register", module>>>>)
    /\ calls' = calls + 1
    /\ UNCHANGED <<config, policies, storage, saved>>

\* ---- export_policy_model (mlagents.model_serialization) ------------------
\* writes the inference model file(s) of the given graph at the path prefix;
\* `exported` is the set of path prefixes that hold such files
export_policy_model(output_filepath, settings, g, s) ==
    exported \cup {output_filepath}

\* ---- tf.train.Saver.save, as save_checkpoint calls it --------------------
\* the tracked list after recording one more save (oldest first)
Recorded(file) ==
    IF saver_max_to_keep = 0
    THEN saver_last_checkpoints
    ELSE Without(saver_last_checkpoints, file) \o <<file>>

\* the tracked list after the save: at most max_to_keep entries
LastCheckpointsAfter(file) ==
    IF Len(Recorded(file)) > saver_max_to_keep /\ saver_max_to_keep # 0
    THEN Tail(Recorded(file))
    ELSE Recorded(file)

\* the checkpoint files after the save: the new one written, the evicted
\* one deleted
CkptFilesAfter(file) ==
    LET withNew == file :> Snapshot(policies[policy]) @@ ckpt_files
    IN  IF Len(Recorded(file)) > saver_max_to_keep /\ saver_max_to_keep # 0
        THEN Remove(withNew, Head(Recorded(file)))
        ELSE withNew

\* ---- TFSaver.save_checkpoint -------------------------------------------
\* save_checkpoint that exports first and writes afterwards
save_checkpoint_export_first(checkpoint_path, settings, io) ==
    /\ calls < MaxCalls
    /\ calls' = calls + 1
    /\ graph # None
    /\ UNCHANGED <<config, policy, graph, sess, saver, saver_max_to_keep, policies,
                   saver_last_checkpoints, ckpt_files, ckpt_state, raw_graph,
                   written, saved>>
    /\ exported' = export_policy_model(checkpoint_path, settings, graph, sess)
    /\ last' = Result("save_checkpoint", <<checkpoint_path, settings, io>>,
                      IF io = "ok" THEN "none" ELSE "IOError", "",
                      <<<<"export", checkpoint_path[1], checkpoint_path[2], settings>>>>)

\* io: what the file system does to the two writes ("ok", or which one fails)
save_checkpoint(checkpoint_path, settings, io) ==
    /\ calls < MaxCalls
    /\ calls' = calls + 1
    /\ UNCHANGED <<config, policy, graph, sess, saver, saver_max_to_keep, policies>>
    /\ LET file == CkptFile(checkpoint_path)
           evSave  == <<"saver.save", file[1], file[2]>>
           evGraph == <<"write_graph", model_path, "raw_graph_def.pb">>
           evExp   == <<"export", checkpoint_path[1], checkpoint_path[2], settings>>
       IN
       IF graph = None
       THEN \* self.graph.as_default() on None
            /\ last' = Result("save_checkpoint", <<checkpoint_path, settings, io>>, "AttributeError", MsgNoneType, << >>)
            /\ UNCHANGED <<saver_last_checkpoints, storage, written, saved>>
       ELSE IF saver # None /\ io = "ckpt_fails"
       THEN /\ last' = Result("save_checkpoint", <<checkpoint_path, settings, io>>,
                              "IOError", MsgIO, <<evSave>>)
            /\ UNCHANGED <<saver_last_checkpoints, storage, written, saved>>
       ELSE
            /\ IF saver # None
               THEN /\ ckpt_files' = CkptFilesAfter(file)
                    /\ saver_last_checkpoints' = LastCheckpointsAfter(file)
                    /\ ckpt_state' = (file[1] :> file @@ ckpt_state)
                    /\ written' = written \o <<file>>
                    /\ saved' = (file :> policies[policy].params @@ saved)
               ELSE UNCHANGED <<ckpt_files, saver_last_checkpoints, ckpt_state,
                                written, saved>>
            /\ IF io = "graph_fails"
               THEN /\ last' = Result("save_checkpoint", <<checkpoint_path, settings, io>>, "IOError", MsgIO,
                                      (IF saver # None THEN <<evSave>> ELSE << >>)
                                          \o <<evGraph>>)
                    /\ UNCHANGED <<raw_graph, exported>>
               ELSE /\ raw_graph' = (model_path :> graph @@ raw_graph)
                    /\ exported' = export_policy_model(checkpoint_path, settings, graph, sess)
                    /\ last' = Result("save_checkpoint", <<checkpoint_path, settings, io>>, "none", "",
                                      (IF saver # None THEN <<evSave>> ELSE << >>)
                                          \o <<evGraph, evExp>>)

\* ---- TFSaver.export ----------------------------------------------------
export(output_filepath, settings) ==
    /\ calls < MaxCalls
    /\ calls' = calls + 1
    /\ IF graph = None
       THEN /\ last' = Result("export", <<output_filepath, settings>>, "AttributeError", MsgNoneType,
                              <<<<"export", output_filepath[1], output_filepath[2], settings>>>>)
            /\ UNCHANGED exported
       ELSE /\ exported' = export_policy_model(output_filepath, settings, graph, sess)
            /\ last' = Result("export", <<output_filepath, settings>>, "none", "",
                              <<<<"export", output_filepath[1], output_filepath[2], settings>>>>)
    /\ UNCHANGED <<config, binding, policies, ckpt_files, ckpt_state, raw_graph,
                   written, saved>>

\* ---- the training loop (outside the Saver) -----------------------------
\* one update of the bound policy: new parameter values, one more step
Train(v) ==
    /\ calls < MaxCalls
    /\ calls' = calls + 1
    /\ policy # None
    /\ policies[policy].step < MaxStep
    /\ policies' = [policies EXCEPT
                      ![policy].params = [n \in DOMAIN @ |-> v],
                      ![policy].step = @ + 1]
    /\ last' = Result("train", <<v>>, "none", "", << >>)
    /\ UNCHANGED <<config, binding, storage, written, saved>>

\* ---- tf.train.Saver.restore, as _load_graph calls it ---------------------
\* every variable of the graph must be in the checkpoint (else NotFoundError)
Compatible(p, ck) ==
    /\ DOMAIN p.params \subseteq DOMAIN ck.params
    /\ (p.version_tensors # NoVersion => ck.version # NoVersion)

\* a restore that leaves the parameters as they are
Restored_step_only(p, ck) ==
    [p EXCEPT !.step = ck.step,
              !.version_tensors = IF p.version_tensors = NoVersion
                                  THEN NoVersion ELSE ck.version]

\* the policy's variables after the restore
Restored(p, ck) ==
    [p EXCEPT !.params = [n \in DOMAIN p.params |-> ck.params[n]],
              !.step = ck.step,
              !.version_tensors = IF p.version_tensors = NoVersion
                                  THEN NoVersion ELSE ck.version]

\* ---- TFPolicy._initialize_graph ----------------------------------------
\* runs the initializers: every variable gets its initial value
_initialize_graph(p) == NewPolicy(p)

\* ---- TFSaver._check_model_version --------------------------------------
\* p: the policy's variables after the restore.  Gives how the check ends
\* and what it logs.
_check_model_version_strict(p, version) ==
    IF p.version_tensors # NoVersion
       /\ p.version_tensors # _convert_version_string(version)
    THEN [exc |-> "UnityPolicyException", events |-> <<<<"_check_model_version">>>>]
    ELSE [exc |-> "none", events |-> <<<<"_check_model_version">>>>]

_check_model_version(p, version) ==
    IF p.version_tensors # NoVersion
       /\ p.version_tensors # _convert_version_string(version)
    THEN [exc |-> "none", events |-> <<<<"_check_model_version">>, <<"warning">>>>]
    ELSE [exc |-> "none", events |-> <<<<"_check_model_version">>>>]

\* ---- TFSaver._load_graph -----------------------------------------------
_load_graph(path, reset_global_steps) ==
    LET evState == <<"get_checkpoint_state", path>>
    IN
    IF graph = None
    THEN \* self.graph.as_default() on None
         /\ last' = Result("maybe_load", << >>, "AttributeError", MsgNoneType, << >>)
         /\ UNCHANGED policies
    ELSE IF path \notin DOMAIN ckpt_state
    THEN \* ckpt is None: the raise names a class the module never imports
         /\ last' = Result("maybe_load", << >>, "NameError", MsgNameError, <<evState>>)
         /\ UNCHANGED policies
    ELSE
    LET file == ckpt_state[path]
        evRestore == <<"restore", file[1], file[2]>>
    IN
    IF file \notin DOMAIN ckpt_files
    THEN /\ last' = Result("maybe_load", << >>, "ValueError", MsgNotValid, <<evState, evRestore>>)
         /\ UNCHANGED policies
    ELSE IF ~Compatible(policies[policy], ckpt_files[file])
    THEN \* NotFoundError is caught; the raise in the handler fails as above
         /\ last' = Result("maybe_load", << >>, "NameError", MsgNameError, <<evState, evRestore>>)
         /\ UNCHANGED policies
    ELSE
    LET restored == Restored(policies[policy], ckpt_files[file])
        check == _check_model_version(restored, __version__)
    IN
    IF check.exc # "none"
    THEN /\ last' = Result("maybe_load", << >>, check.exc, "", <<evState, evRestore>> \o check.events)
         /\ policies' = [policies EXCEPT ![policy] = restored]
    ELSE IF reset_global_steps
    THEN /\ last' = Result("maybe_load", << >>, "none", "",
                           <<evState, evRestore>> \o check.events \o <<<<"_set_step", "0">>>>)
         /\ policies' = [policies EXCEPT ![policy] = [restored EXCEPT !.step = 0]]
    ELSE /\ last' = Result("maybe_load", << >>, "none", "",
                           <<evState, evRestore>> \o check.events)
         /\ policies' = [policies EXCEPT ![policy] = restored]

\* ---- TFSaver.maybe_load ------------------------------------------------
reset_steps_never == FALSE
reset_steps_always == TRUE
reset_steps == ~load

maybe_load ==
    /\ calls < MaxCalls
    /\ calls' = calls + 1
    /\ UNCHANGED <<config, binding, storage, written, saved>>
    /\ IF initialize_path # None
       THEN _load_graph(initialize_path, reset_steps)
       ELSE IF load
       THEN _load_graph(model_path, reset_steps)
       ELSE IF policy = None
       THEN /\ last' = Result("maybe_load", << >>, "AttributeError", MsgNoneType, << >>)
            /\ UNCHANGED policies
       ELSE /\ last' = Result("maybe_load", << >>, "none", "", <<<<"_initialize_graph">>>>)
            /\ policies' = [policies EXCEPT ![policy] = _initialize_graph(policy)]

Next ==
    \/ maybe_load
    \/ \E module \in {None} \cup PolicyIds : register(module)
    \/ \E p \in Paths, s \in Settings, io \in IOOutcomes :
          save_checkpoint(p, s, io)
    \/ \E p \in Paths, s \in Settings : export(p, s)
    \/ \E v \in 0..MaxVal : Train(v)

Spec == Init /\ [][Next]_vars

\* ---- properties --------------------------------------------------------
\* the directory maybe_load reads, and whether it reads one at all
LoadTarget == IF initialize_path # None THEN initialize_path ELSE model_path
LoadAttempted == policy # None /\ (initialize_path # None \/ load)
\* the step is a call of maybe_load
MaybeLoadStep == last'.op = "maybe_load" /\ calls' = calls + 1
\* the call recorded in `last` made a call of this name
Made(name) == \E i \in DOMAIN last.events : last.events[i][1] = name
\* the checkpoint file the state file of a directory names
Latest(dir) == ckpt_state[dir]

\* the n most recently written distinct files of a list (oldest first)
RECURSIVE LastDistinct(_, _)
LastDistinct(s, n) ==
    IF n = 0 \/ s = << >> THEN {}
    ELSE LET x == s[Len(s)]
         IN  {x} \cup LastDistinct(Without(SubSeq(s, 1, Len(s) - 1), x), n - 1)

\* C1 (as stated): with an initialization path, a successful maybe_load has
\* read that path and leaves the step counter at 0, whatever `load` is.
C1_Original ==
    (last.op = "maybe_load" /\ initialize_path # None /\ last.exc = "none")
    => /\ last.events[1] = <<"get_checkpoint_state", initialize_path>>
       /\ policies[policy].step = 0

\* C1 (amended): with an initialization path, a successful maybe_load has
\* read that path (and no other); the step counter is 0 afterwards when
\* `load` is false and is the checkpoint's step when `load` is true.
C1_InitPathLoad ==
    (last.op = "maybe_load" /\ initialize_path # None /\ last.exc = "none")
    => /\ last.events[1] = <<"get_checkpoint_state", initialize_path>>
       /\ last.events[2] = <<"restore", Latest(initialize_path)[1],
                                        Latest(initialize_path)[2]>>
       /\ \A i \in DOMAIN last.events :
             last.events[i][1] = "get_checkpoint_state"
                => last.events[i][2] = initialize_path
       /\ policies[policy].step =
             IF load THEN ckpt_files[Latest(initialize_path)].step ELSE 0

C1_Witness ==
    /\ last.op = "maybe_load" /\ last.exc = "none"
    /\ initialize_path # None /\ initialize_path # model_path
    /\ ~load
    /\ ckpt_files[Latest(initialize_path)].step > 0
    /\ policies[policy].step = 0

\* C2: maybe_load zeroes the step counter only when it loads from an
\* initialization path or starts fresh with resume disabled; with no
\* initialization path and `load` true it restores from model_path and the
\* step counter is the checkpoint's step.
C2_StepResetOnlyWhen ==
    last.op = "maybe_load"
    => /\ (Made("_set_step") \/ Made("_initialize_graph"))
             => (initialize_path # None \/ ~load)
       /\ Made("_set_step") => initialize_path # None
       /\ (initialize_path = None /\ load /\ last.exc = "none")
             => /\ last.events[1] = <<"get_checkpoint_state", model_path>>
                /\ ~Made("_set_step")
                /\ policies[policy].step = ckpt_files[Latest(model_path)].step

C2_Witness ==
    /\ last.op = "maybe_load" /\ last.exc = "none"
    /\ initialize_path = None /\ load
    /\ policies[policy].step > 0

\* C3: a load from a directory without checkpoint state ends in the
\* documented UnityPolicyException ("could not be loaded"), with no restore,
\* no version check and the policies unchanged.
C3_MissingCheckpointError ==
    [][(MaybeLoadStep /\ LoadAttempted /\ LoadTarget \notin DOMAIN ckpt_state)
        => /\ last'.exc = "UnityPolicyException"
           /\ last'.msg = MsgNotLoaded
           /\ \A i \in DOMAIN last'.events :
                 last'.events[i][1] \notin {"restore", "_check_model_version"}
           /\ policies' = policies]_vars

\* the policy cannot take the checkpoint the directory's state file names
StructuralMismatch ==
    /\ LoadAttempted
    /\ LoadTarget \in DOMAIN ckpt_state
    /\ Latest(LoadTarget) \in DOMAIN ckpt_files
    /\ ~ (/\ DOMAIN policies[policy].params
               \subseteq DOMAIN ckpt_files[Latest(LoadTarget)].params
          /\ (policies[policy].version_tensors # NoVersion
                => ckpt_files[Latest(LoadTarget)].version # NoVersion))

\* C4: a restore that fails on a structural mismatch ends in the documented
\* UnityPolicyException "was found but could not be loaded" (not the outcome
\* of a missing checkpoint), with no version check and the policies
\* unchanged.
C4_StructuralMismatchError ==
    [][(MaybeLoadStep /\ StructuralMismatch)
        => /\ last'.exc = "UnityPolicyException"
           /\ last'.msg = MsgFoundNotLoad
           /\ MsgFoundNotLoad # MsgNotLoaded
           /\ \A i \in DOMAIN last'.events :
                 last'.events[i][1] # "_check_model_version"
           /\ policies' = policies]_vars

\* the policy can take the checkpoint the directory's state file names
RestorableLoad ==
    /\ LoadAttempted
    /\ LoadTarget \in DOMAIN ckpt_state
    /\ Latest(LoadTarget) \in DOMAIN ckpt_files
    /\ DOMAIN policies[policy].params
          \subseteq DOMAIN ckpt_files[Latest(LoadTarget)].params
    /\ (policies[policy].version_tensors # NoVersion
          => ckpt_files[Latest(LoadTarget)].version # NoVersion)

\* C5: a load whose restore succeeds never aborts on the version: it ends
\* without exception, with the checkpoint's parameters and the step counter
\* reset or preserved as configured, whatever the checkpoint's version; a
\* warning is logged exactly when the policy has a version marker and the
\* loaded version differs from the running one.
C5_VersionMismatchWarnsOnly ==
    [][(MaybeLoadStep /\ RestorableLoad)
        => LET ck == ckpt_files[Latest(LoadTarget)]
           IN  /\ last'.exc = "none"
               /\ policies'[policy].params =
                     [n \in DOMAIN policies[policy].params |-> ck.params[n]]
               /\ policies'[policy].step = (IF load THEN ck.step ELSE 0)
               /\ (\E i \in DOMAIN last'.events : last'.events[i] = <<"warning">>)
                     <=> (/\ policies[policy].version_tensors # NoVersion
                          /\ ck.version # SubSeq(__version__, 1, 3))]_vars

C5_Witness ==
    /\ last.op = "maybe_load" /\ last.exc = "none"
    /\ Made("warning")
    /\ policies[policy].version_tensors = OldVersionTuple

\* C6 (as stated): after a save_checkpoint on a registered Saver, storage
\* holds at most keep_checkpoints checkpoints, the most recently saved ones.
C6_Original ==
    (last.op = "save_checkpoint" /\ last.exc = "none" /\ saver # None)
    => /\ Cardinality(DOMAIN ckpt_files) <= _keep_checkpoints
       /\ DOMAIN ckpt_files = LastDistinct(written, _keep_checkpoints)

\* C6 (amended): with keep_checkpoints = N >= 1, of the checkpoints written
\* since the latest register() at most N are in storage, and they are the N
\* most recently written ones.
C6_RetainsMostRecent ==
    (saver # None /\ _keep_checkpoints >= 1)
    => /\ Cardinality(Range(written) \cap DOMAIN ckpt_files) <= _keep_checkpoints
       /\ Range(written) \cap DOMAIN ckpt_files
             = LastDistinct(written, _keep_checkpoints)

C6_Witness ==
    /\ saver # None /\ _keep_checkpoints >= 1
    /\ last.op = "save_checkpoint" /\ last.exc = "none"
    /\ Cardinality(Range(written)) > _keep_checkpoints
    /\ Range(written) \ DOMAIN ckpt_files # {}

\* C7: after a successful load of a checkpoint that save_checkpoint wrote,
\* every parameter of the policy has the value it had when the checkpoint
\* was saved.
C7_RoundTrip ==
    (last.op = "maybe_load" /\ last.exc = "none" /\ Made("restore")
        /\ Latest(LoadTarget) \in DOMAIN saved)
    => \A n \in DOMAIN policies[policy].params :
          policies[policy].params[n] = saved[Latest(LoadTarget)][n]

C7_Witness ==
    /\ last.op = "maybe_load" /\ last.exc = "none" /\ Made("restore")
    /\ Latest(LoadTarget) \in DOMAIN saved
    /\ policies[policy].params["w"] = 1
    /\ calls = MaxCalls

\* C8: register(None) raises nothing and leaves policy, graph, sess and the
\* framework saver (with what it tracks) as they were.
C8_RegisterNoneNoOp ==
    [][(last'.op = "register" /\ calls' = calls + 1 /\ last'.args = <<None>>)
        => /\ last'.exc = "none"
           /\ binding' = binding]_vars

C8_Witness ==
    /\ last.op = "register" /\ last.args = <<None>>
    /\ policy # None

\* C9: a save_checkpoint on a registered Saver writes the checkpoint, then
\* the raw graph, then calls export once with the same path and settings;
\* export is not called when one of the writes fails.
C9_SaveThenExport ==
    (last.op = "save_checkpoint" /\ saver # None)
    => LET path == last.args[1]
           settings == last.args[2]
           io == last.args[3]
           exports == {i \in DOMAIN last.events : last.events[i][1] = "export"}
       IN  /\ Cardinality(exports) = (IF io = "ok" THEN 1 ELSE 0)
           /\ io = "ok"
                => /\ last.events =
                        << <<"saver.save", path[1], path[2] \o ".ckpt">>,
                           <<"write_graph", model_path, "raw_graph_def.pb">>,
                           <<"export", path[1], path[2], settings>> >>
                   /\ last.exc = "none"
                   /\ <<path[1], path[2] \o ".ckpt">> \in DOMAIN ckpt_files
                   /\ model_path \in DOMAIN raw_graph
                   /\ path \in exported
           /\ io # "ok" => last.exc # "none"

C9_Witness ==
    /\ last.op = "save_checkpoint" /\ saver # None
    /\ last.args[3] = "ok"
    /\ Len(last.events) = 3

\* C10: policy, graph, sess and framework saver are all unset, or all set
\* with graph and sess those of the bound policy; a bound Saver never
\* becomes unregistered again.
BindingConsistent ==
    \/ /\ unregistered
       /\ policy = None /\ graph = None /\ sess = None /\ saver = None
    \/ /\ ~unregistered
       /\ policy \in PolicyIds
       /\ graph = policies[policy].graph
       /\ sess = policies[policy].sess
       /\ saver # None

C10_BindingInvariant ==
    /\ []BindingConsistent
    /\ [][~unregistered => ~unregistered']_vars

C10_Witness ==
    /\ policy = "p2" /\ graph = "g2" /\ saver # None
    /\ last.op = "register" /\ last.args = <<"p2">>
    /\ calls >= 2
====
